---- MODULE Spec2Model ----
(***************************************************************************)
(* Model of the email extractor: src/email_extractor.py (the calendar      *)
(* loader, the attendee email extractor, the cleaner and the two text      *)
(* extractors) and src/email_extractor_cli.py (the extract_emails command  *)
(* that runs them in sequence, merges the results and writes the file).    *)
(*                                                                         *)
(* A string is a sequence of one-character strings, so the regular         *)
(* expression, strip, split and join are computed character by character.  *)
(* A timestamp is a number of minutes on the proleptic Gregorian time      *)
(* line (ordinal day * 1440 + minute of the day).                          *)
(***************************************************************************)
EXTENDS Integers, Sequences, FiniteSets, TLC

\* ------------------------------------------------------------ bounds
MaxEvents == 2
MaxAttendees == 2
MaxFiles == 2
MaxLines == 2
MaxFrags == 2

\* ------------------------------------------------------------ strings
Letters == {"a", "b", "c", "d", "e", "f", "g", "i", "l", "m", "n", "o", "r",
            "t", "x", "A"}
Digits == {"1"}
Whitespace == {" ", "\n", "\t"}

\* \w of the regular expression engine
IsWord(c) == c \in Letters \cup Digits \cup {"_"}

\* [A-Za-z0-9._%+-]
LocalClass == Letters \cup Digits \cup {".", "_", "%", "+", "-"}

\* [A-Za-z0-9.-]
DomainClass == Letters \cup Digits \cup {".", "-"}

\* [A-Z|a-z]: inside a character class the bar is a literal character
TldClass == Letters \cup {"|"}

\* \b at position p (between s[p-1] and s[p]), p in 1..Len(s)+1
Boundary(s, p) ==
    LET prevWord == p > 1 /\ IsWord(s[p - 1])
        nextWord == p <= Len(s) /\ IsWord(s[p])
    IN prevWord # nextWord

RECURSIVE RunEnd(_, _, _)
\* the position after the longest run of characters of class cls from p
RunEnd(s, p, cls) ==
    IF p <= Len(s) /\ s[p] \in cls THEN RunEnd(s, p + 1, cls) ELSE p

SetMax(S) == CHOOSE x \in S : \A y \in S : y <= x

\* The ends e (exclusive) of [A-Z|a-z]{2,}\b when the literal dot is at q
TldEnds(s, q) ==
    {e \in (q + 3)..RunEnd(s, q + 1, TldClass) : Boundary(s, e)}

\* The position after the match of email_pattern that starts at p, 0 when
\* there is none. Each quantifier is greedy and gives back one character at a
\* time: the local part is the whole run up to the "@", the domain part the
\* longest that leaves a dot and two or more TLD characters ending at a \b.
MatchEnd(s, p) ==
    LET lEnd == RunEnd(s, p, LocalClass)
        dStart == lEnd + 1
        dMax == RunEnd(s, dStart, DomainClass)
        dots == {q \in (dStart + 1)..(dMax - 1) :
                    s[q] = "." /\ TldEnds(s, q) # {}}
    IN IF /\ p <= Len(s)
          /\ Boundary(s, p)
          /\ lEnd > p
          /\ lEnd <= Len(s)
          /\ s[lEnd] = "@"
          /\ dots # {}
       THEN SetMax(TldEnds(s, SetMax(dots)))
       ELSE 0

RECURSIVE FindAllFrom(_, _)
FindAllFrom(s, p) ==
    IF p > Len(s) THEN << >>
    ELSE LET e == MatchEnd(s, p)
         IN IF e # 0
            THEN <<SubSeq(s, p, e - 1)>> \o FindAllFrom(s, e)
            ELSE FindAllFrom(s, p + 1)

\* re.findall(email_pattern, s): the non-overlapping matches, left to right
FindAll(s) == FindAllFrom(s, 1)

\* re.match(email_pattern, s): a match that starts at the first character
ReMatch(s) == MatchEnd(s, 1) # 0

RECURSIVE Join(_, _)
\* sep.join(parts)
Join(parts, sep) ==
    IF parts = << >> THEN << >>
    ELSE IF Len(parts) = 1 THEN parts[1]
    ELSE parts[1] \o sep \o Join(Tail(parts), sep)

RECURSIVE SplitFrom(_, _, _, _)
SplitFrom(s, c, p, from) ==
    IF p > Len(s) THEN <<SubSeq(s, from, Len(s))>>
    ELSE IF s[p] = c
         THEN <<SubSeq(s, from, p - 1)>> \o SplitFrom(s, c, p + 1, p + 1)
         ELSE SplitFrom(s, c, p + 1, from)

\* str.split(c): the pieces between the occurrences of c, empty ones kept
Split(s, c) == SplitFrom(s, c, 1, 1)

RECURSIVE LStrip(_)
LStrip(s) ==
    IF s # << >> /\ Head(s) \in Whitespace THEN LStrip(Tail(s)) ELSE s

RECURSIVE RStrip(_)
RStrip(s) ==
    IF s # << >> /\ s[Len(s)] \in Whitespace
    THEN RStrip(SubSeq(s, 1, Len(s) - 1))
    ELSE s

\* str.strip() with a fault: nothing is removed
StripNothing(s) == s

\* str.strip(): leading and trailing whitespace removed
Strip(s) == RStrip(LStrip(s))

RECURSIVE Concat(_)
\* the concatenation of a sequence of sequences
Concat(ss) == IF ss = << >> THEN << >> ELSE Head(ss) \o Concat(Tail(ss))

RECURSIVE Unique(_)
\* Series.unique(): the values in order of first appearance
Unique(xs) ==
    IF xs = << >> THEN << >>
    ELSE LET init == Unique(SubSeq(xs, 1, Len(xs) - 1))
             x == xs[Len(xs)]
         IN IF \E i \in 1..Len(init) : init[i] = x THEN init
            ELSE Append(init, x)

Range(xs) == {xs[i] : i \in 1..Len(xs)}


\* ------------------------------------------------------------ sample text
StrA == <<"a", "@", "b", ".", "c", "o", "m">>
StrAUpper == <<"A", "@", "b", ".", "c", "o", "m">>
StrC == <<"c", "@", "d", ".", "o", "r", "g">>
StrE == <<"e", "@", "f", ".", "c", "o", "m">>
StrPipe == <<"a", "@", "b", ".", "c", "|", "m">>
StrName == <<"x">>
StrNamed == <<"x", " ", "<", "c", "@", "d", ".", "o", "r", "g", ">">>
StrTwo == StrA \o <<",">> \o StrC
StrDotted == <<".", "a", "@", "b", ".", "c", "o", ".", "m">>
StrPadded == <<" ", " ">> \o StrC \o <<" ", " ">>
StrExtra == StrA \o <<" ", "x">>
StrNot == <<"n", "o", "t", "-", "a", "n", "-", "e", "m", "a", "i", "l">>
StrContact == <<"x", ":", " ">> \o StrA \o <<",", " ">> \o StrC \o <<".">>
StrMailto == <<"m", "a", "i", "l", "t", "o", ":">> \o StrA
StrOld == <<"o", "l", "d">>
CommaSpace == <<",", " ">>
Newline == <<"\n">>

\* ------------------------------------------------------------ dates
IsLeap(y) == y % 4 = 0 /\ (y % 100 # 0 \/ y % 400 = 0)

DaysBeforeYear(y) ==
    (y - 1) * 365 + (y - 1) \div 4 - (y - 1) \div 100 + (y - 1) \div 400

DaysBeforeMonth(y, m) ==
    <<0, 31, 59, 90, 120, 151, 181, 212, 243, 273, 304, 334>>[m]
        + (IF m > 2 /\ IsLeap(y) THEN 1 ELSE 0)

\* date.toordinal(): the day number of a calendar date
ToOrdinal(d) == DaysBeforeYear(d.y) + DaysBeforeMonth(d.y, d.m) + d.d

MinutesPerDay == 24 * 60

\* the time line's value of midnight at the start of a calendar date
Midnight(d) == ToOrdinal(d) * MinutesPerDay

Date(y, m, d) == [y |-> y, m |-> m, d |-> d]

\* datetime.strptime(text, "%Y-%m-%d") if text else None: an absent option
\* stays absent (<< >>), a date becomes the naive datetime of its midnight
ParseDate(opt) == IF opt = << >> THEN << >> ELSE <<Midnight(opt[1])>>

\* ------------------------------------------------------------ calendar
\* A DTSTART/DTEND value: absent, a date, a datetime with a UTC offset
\* ("aware"), or a floating datetime ("naive"). minute is the minute of the
\* day, utcoffset is in minutes.
DtAbsent == [kind |-> "absent", date |-> Date(1, 1, 1), minute |-> 0, utcoffset |-> 0]
DtDate(d) == [kind |-> "date", date |-> d, minute |-> 0, utcoffset |-> 0]
DtAware(d, hh, off) ==
    [kind |-> "aware", date |-> d, minute |-> hh * 60, utcoffset |-> off * 60]
DtNaive(d, hh) == [kind |-> "naive", date |-> d, minute |-> hh * 60, utcoffset |-> 0]

\* the wall-clock reading of a value, on the time line
LocalMinutes(v) == Midnight(v.date) + v.minute

\* astimezone(pytz.utc) with a fault: the wall-clock reading is kept and
\* the offset ignored
AsTimezoneKeepLocal(v, systz) == LocalMinutes(v)

\* datetime.astimezone(pytz.utc): an aware value moves by its own offset, a
\* naive one is taken to be in the system's local zone
AsTimezoneUtc(v, systz) ==
    IF v.kind = "aware" THEN LocalMinutes(v) - v.utcoffset
    ELSE LocalMinutes(v) - systz

\* Lines 60-67 and 80-81: the column value for a DTSTART/DTEND. A datetime is
\* converted to UTC; a date is left as it is and to_datetime(utc=True) reads
\* it as midnight UTC; None becomes NaT (<< >>).
ToTimestamp(v, systz) ==
    IF v.kind = "absent" THEN << >>
    ELSE IF v.kind = "date" THEN <<Midnight(v.date)>>
    ELSE <<AsTimezoneUtc(v, systz)>>

\* An ATTENDEE property value: the address and its CN parameter, if any
Attendee(addr, cn) == [addr |-> addr, hasCN |-> TRUE, CN |-> cn]
AttendeeNoCN(addr) == [addr |-> addr, hasCN |-> FALSE, CN |-> << >>]

\* What the loop of line 54 iterates over. component.get("attendee", [])
\* is the default [] with no ATTENDEE line, a list of vCalAddress with
\* several, and with exactly one the vCalAddress itself, a str whose
\* iteration yields its characters as plain strings.
AttendeeItems(props) ==
    IF Len(props) = 1
    THEN [i \in 1..Len(props[1].addr) |->
            [isAddress |-> FALSE, hasCN |-> FALSE, text |-> <<props[1].addr[i]>>]]
    ELSE [i \in 1..Len(props) |->
            [isAddress |-> TRUE, hasCN |-> props[i].hasCN, text |-> props[i].CN]]

\* Lines 55-58: the string appended for one item
Display(item) == item.text

\* Lines 53-58 and 75
AttendeesField(props) ==
    LET items == AttendeeItems(props)
    IN Join([i \in 1..Len(items) |-> Display(items[i])], CommaSpace)

\* The exception one component raises in the loop body, "" when none: line 56
\* raises KeyError for a vCalAddress without CN, and then line 60 raises
\* AttributeError for a component without DTSTART
EventError(c) ==
    LET items == AttendeeItems(c.attendee)
    IN IF \E i \in 1..Len(items) : items[i].isAddress /\ ~items[i].hasCN
       THEN "KeyError"
       ELSE IF c.dtstart.kind = "absent" THEN "AttributeError"
       ELSE ""

\* Lines 69-77, with the DataFrame's row label
EventRecord(c, label, systz) ==
    [index |-> label,
     Summary |-> c.summary,
     Start |-> ToTimestamp(c.dtstart, systz),
     End |-> ToTimestamp(c.dtend, systz),
     Location |-> c.location,
     Description |-> c.description,
     Attendees |-> AttendeesField(c.attendee)]

\* Lines 51-81: the frame before the filter, rows labelled 0, 1, ...
AllRecords(events, systz) ==
    [i \in 1..Len(events) |-> EventRecord(events[i], i - 1, systz)]

\* Line 84: if start_date and end_date
FilterApplies(lo, hi) == lo # << >> /\ hi # << >>

\* Lines 86-87 with a fault: the upper bound is inclusive
InRangeClosed(t, lo, hi) == t >= lo /\ t <= hi

\* Lines 86-87: Start, its zone dropped, >= start_date and < end_date
InRange(t, lo, hi) == t >= lo /\ t < hi

\* Lines 84-88 with a fault: "or" for "and", a single bound filters too
DateFilterEither(rows, lo, hi) ==
    IF lo # << >> \/ hi # << >>
    THEN SelectSeq(rows, LAMBDA r :
            /\ (lo # << >> => r.Start[1] >= lo[1])
            /\ (hi # << >> => r.Start[1] < hi[1]))
    ELSE rows

\* Lines 84-88
DateFilter(rows, lo, hi) ==
    IF FilterApplies(lo, hi)
    THEN SelectSeq(rows, LAMBDA r : InRange(r.Start[1], lo[1], hi[1]))
    ELSE rows

\* Line 79 on an empty list builds a frame without columns, and line 80
\* (df["Start"]) raises KeyError
EmptyFrameError(events) == IF events = << >> THEN "KeyError" ELSE ""

\* ics_to_dataframe: [error, df]. error is "" on success, else the exception
\* of the first statement that raises
IcsToDataframeResult(file, lo, hi, systz) ==
    LET raising == {i \in 1..Len(file.events) : EventError(file.events[i]) # ""}
        first == CHOOSE i \in raising : \A j \in raising : i <= j
    IN IF file.kind = "missing"
       THEN [error |-> "FileNotFoundError", df |-> << >>]
       ELSE IF file.kind = "malformed"
       THEN [error |-> "ValueError", df |-> << >>]
       ELSE IF raising # {}
       THEN [error |-> EventError(file.events[first]), df |-> << >>]
       ELSE IF EmptyFrameError(file.events) # ""
       THEN [error |-> EmptyFrameError(file.events), df |-> << >>]
       ELSE [error |-> "",
             df |-> DateFilter(AllRecords(file.events, systz), lo, hi)]

\* Lines 103-107: the frame with its Emails column
WithEmails(rows) ==
    [i \in 1..Len(rows) |->
        [index |-> rows[i].index,
         Summary |-> rows[i].Summary,
         Start |-> rows[i].Start,
         End |-> rows[i].End,
         Location |-> rows[i].Location,
         Description |-> rows[i].Description,
         Attendees |-> rows[i].Attendees,
         Emails |-> Join(FindAll(rows[i].Attendees), CommaSpace)]]

\* Lines 127-130 for one row: one row per piece of Emails split on ",", each
\* piece stripped, the row's label and other columns repeated
ExplodeRow(r) ==
    LET parts == Split(r.Emails, ",")
    IN [k \in 1..Len(parts) |-> [r EXCEPT !.Emails = Strip(parts[k])]]

\* Lines 124-132
CleanAndExplode(rows) ==
    LET kept == SelectSeq(rows, LAMBDA r : r.Emails # << >>)
    IN Concat([i \in 1..Len(kept) |-> ExplodeRow(kept[i])])

\* Line 72: list(df.Emails.unique())
EmailsColumn(rows) == [i \in 1..Len(rows) |-> rows[i].Emails]

\* The open() calls of extract_emails_from_text, in order: the loop stops at
\* the first file that cannot be opened
TextOpens(files) ==
    LET bad == {i \in 1..Len(files) : ~files[i].readable}
        last == IF bad = {} THEN Len(files)
                ELSE CHOOSE i \in bad : \A j \in bad : i <= j
    IN [i \in 1..last |-> "name_email_file"]

\* extract_emails_from_text with a fault: a file that cannot be opened is
\* skipped instead of ending the command
ExtractEmailsFromTextSkipping(files) ==
    [error |-> "",
     emails |-> Concat([i \in 1..Len(files) |->
                    IF files[i].readable THEN FindAll(files[i].content)
                    ELSE << >>])]

\* Lines 145-153: [error, emails]
ExtractEmailsFromText(files) ==
    IF \E i \in 1..Len(files) : ~files[i].readable
    THEN [error |-> "FileNotFoundError", emails |-> << >>]
    ELSE [error |-> "",
          emails |-> Concat([i \in 1..Len(files) |-> FindAll(files[i].content)])]

\* Line 170: the lines of a text file, each with its line end
FileLines(content) ==
    LET pieces == Split(content, "\n")
        n == Len(pieces)
    IN [i \in 1..(IF pieces[n] = << >> THEN n - 1 ELSE n) |->
            IF i < n THEN pieces[i] \o Newline ELSE pieces[i]]

\* Line 172: re.match(email_pattern, email)
LineAccepted(email) == ReMatch(email)

\* Lines 167-175
ExtractEmailsFromNewlineSeparatedText(content) ==
    LET lines == FileLines(content)
        stripped == [i \in 1..Len(lines) |-> Strip(lines[i])]
    IN SelectSeq(stripped, LineAccepted)

\* Lines 84-86 with a fault: the free-form list is left out
MergeWithoutText(fromNewline, fromCalendar, fromText) ==
    Range(fromNewline \o fromCalendar)

\* Lines 84-86: set(a + b + c)
MergeEmails(fromNewline, fromCalendar, fromText) ==
    Range(fromNewline \o fromCalendar \o fromText)

RECURSIVE Orders(_)
\* The orders in which a set can be iterated
Orders(S) ==
    IF S = {} THEN {<< >>}
    ELSE UNION {{<<x>> \o rest : rest \in Orders(S \ {x})} : x \in S}

\* ------------------------------------------------------------ inputs
BoundedSeqs(S, n) == UNION {[1..k -> S] : k \in 0..n}

VEvent(summary, dtstart, dtend, attendee) ==
    [summary |-> summary, dtstart |-> dtstart, dtend |-> dtend,
     location |-> "None", description |-> "None", attendee |-> attendee]

\* DTEND of the sample events: none for a date, an hour later for a datetime
EndOf(v) == IF v.kind = "date" THEN DtAbsent ELSE [v EXCEPT !.minute = @ + 60]

TwoGuests == <<Attendee(StrMailto, StrA), Attendee(StrMailto, StrC)>>

\* Dates on both sides of each bound, and datetimes whose conversion to UTC
\* crosses a bound
StartValues ==
    {DtDate(Date(2023, 7, 31)), DtDate(Date(2023, 8, 1)),
     DtDate(Date(2023, 12, 31)), DtDate(Date(2024, 1, 1)),
     DtAware(Date(2023, 7, 31), 23, -5),
     DtAware(Date(2023, 8, 1), 2, 5),
     DtAware(Date(2023, 12, 31), 22, -5),
     DtNaive(Date(2023, 12, 31), 23)}

DateEvents == {VEvent("s", v, EndOf(v), TwoGuests) : v \in StartValues}

CNSamples ==
    {StrA, StrAUpper, StrC, StrName, StrNamed, StrTwo, StrPipe, StrDotted}

AttendeeSamples ==
    {Attendee(StrMailto, cn) : cn \in CNSamples} \cup {AttendeeNoCN(StrMailto)}

SmallEvents ==
    {VEvent("s", DtDate(Date(2023, 8, 1)), DtAbsent, << >>),
     VEvent("s", DtDate(Date(2023, 8, 1)), DtAbsent, TwoGuests),
     VEvent("t", DtDate(Date(2023, 8, 1)), DtAbsent,
            <<Attendee(StrMailto, StrNamed), Attendee(StrMailto, StrTwo)>>),
     VEvent("s", DtDate(Date(2023, 8, 1)), DtAbsent, <<Attendee(StrMailto, StrA)>>),
     VEvent("s", DtAbsent, DtAbsent, TwoGuests)}

Calendar(events) == [kind |-> "calendar", events |-> events]
MissingFile == [kind |-> "missing", events |-> << >>]
MalformedFile == [kind |-> "malformed", events |-> << >>]

TextFile(content) == [readable |-> TRUE, content |-> content]
UnreadableFile == [readable |-> FALSE, content |-> << >>]

NoNewlineFile == [given |-> FALSE, readable |-> FALSE, content |-> << >>]
NewlineFile(content) == [given |-> TRUE, readable |-> TRUE, content |-> content]
UnreadableNewlineFile == [given |-> TRUE, readable |-> FALSE, content |-> << >>]

OutputFile(writable) == [writable |-> writable, opened |-> FALSE, content |-> StrOld]

LineSamples == {StrA, StrNot, StrPadded, StrE, StrExtra}

\* Files of up to MaxLines lines, each line ended, or the last one not
NewlineContents ==
    LET ended == {Concat([i \in 1..Len(ls) |-> ls[i] \o Newline]) :
                    ls \in BoundedSeqs(LineSamples, MaxLines)}
    IN ended \cup {SubSeq(c, 1, Len(c) - 1) : c \in ended \ {<< >>}}

TextContents == {StrContact, StrAUpper, StrName}

Input(ics, lo, hi, names, newline, out, tz) ==
    [ics_file |-> ics, start_date |-> lo, end_date |-> hi,
     name_email_file |-> names, newline_email_file |-> newline,
     output_file |-> out, local_tz |-> tz]

\* Calendars of dated events under every combination of bounds
DateInputs ==
    {Input(Calendar(evs), lo, hi, << >>, NoNewlineFile, OutputFile(TRUE), tz) :
        evs \in BoundedSeqs(DateEvents, MaxEvents),
        lo \in {<< >>, <<Date(2023, 8, 1)>>},
        hi \in {<< >>, <<Date(2024, 1, 1)>>},
        tz \in {-300, 0}}

\* One event with every list of up to MaxAttendees attendees, and calendars of
\* up to MaxEvents of the small events
AttendeeInputs ==
    {Input(Calendar(<<VEvent("s", DtDate(Date(2023, 8, 1)), DtAbsent, as)>>),
           << >>, << >>, << >>, NoNewlineFile, OutputFile(TRUE), 0) :
        as \in BoundedSeqs(AttendeeSamples, MaxAttendees)}
    \cup
    {Input(Calendar(evs), << >>, << >>, << >>, NoNewlineFile, OutputFile(TRUE), 0) :
        evs \in BoundedSeqs(SmallEvents, MaxEvents)}

\* Every source present, absent or failing
FailureInputs ==
    {Input(ics, << >>, << >>, names, newline, OutputFile(w), 0) :
        ics \in {MissingFile, MalformedFile, Calendar(<< >>),
                 Calendar(<<VEvent("s", DtDate(Date(2023, 8, 1)), DtAbsent, TwoGuests)>>)},
        names \in BoundedSeqs({UnreadableFile, TextFile(StrContact),
                               TextFile(StrAUpper)}, MaxFiles),
        newline \in {NoNewlineFile, UnreadableNewlineFile,
                     NewlineFile(StrE \o Newline)},
        w \in BOOLEAN}

\* A calendar whose one event has the guests a@b.com and x
OneAddressCalendar ==
    Calendar(<<VEvent("s", DtDate(Date(2023, 8, 1)), DtAbsent,
                      <<Attendee(StrMailto, StrA), Attendee(StrMailto, StrName)>>)>>)

\* Every source readable: every list of name/email files, and every
\* newline-delimited file
MergeInputs ==
    {Input(OneAddressCalendar, << >>, << >>, names, newline, OutputFile(TRUE), 0) :
        names \in BoundedSeqs({TextFile(c) : c \in TextContents}, MaxFiles),
        newline \in {NoNewlineFile, NewlineFile(StrE \o Newline),
                     NewlineFile(StrE \o Newline \o StrA \o Newline)}}
    \cup
    {Input(OneAddressCalendar, << >>, << >>, names, NewlineFile(c), OutputFile(TRUE), 0) :
        names \in {<< >>, <<TextFile(StrContact)>>},
        c \in NewlineContents}

Fragments ==
    {StrA, <<"x">>, <<" ">>, <<",">>, <<"|">>, <<".">>, <<"@">>, <<"-">>, <<"\n">>}

\* The texts made of up to MaxFrags fragments
Texts == {Concat(fs) : fs \in BoundedSeqs(Fragments, MaxFrags)}

\* One text as the common name of a guest, as the one name/email file and as
\* the newline-delimited file
TextInputs ==
    {Input(Calendar(<<VEvent("s", DtDate(Date(2023, 8, 1)), DtAbsent,
                             <<Attendee(StrMailto, t), Attendee(StrMailto, StrName)>>)>>),
           << >>, << >>, <<TextFile(t)>>, NewlineFile(t), OutputFile(TRUE), 0) :
        t \in Texts}

Inputs ==
    DateInputs \cup AttendeeInputs \cup FailureInputs \cup MergeInputs
        \cup TextInputs

\* ------------------------------------------------------------ state
VARIABLES ics_file, start_date, end_date, name_email_file, newline_email_file,
          output_file, local_tz, pc, df, emails_from_calendar,
          emails_from_last_years_minis, emails_from_u_session, emails,
          opened, echoed, error

args == <<ics_file, name_email_file, newline_email_file, local_tz>>
vars == <<ics_file, start_date, end_date, name_email_file, newline_email_file,
          output_file, local_tz, pc, df, emails_from_calendar,
          emails_from_last_years_minis, emails_from_u_session, emails,
          opened, echoed, error>>

\* The command is entered with its options; nothing is read yet
Init ==
    \E in \in Inputs :
        /\ ics_file = in.ics_file
        /\ start_date = in.start_date
        /\ end_date = in.end_date
        /\ name_email_file = in.name_email_file
        /\ newline_email_file = in.newline_email_file
        /\ output_file = in.output_file
        /\ local_tz = in.local_tz
        /\ pc = "parse_dates"
        /\ df = << >>
        /\ emails_from_calendar = << >>
        /\ emails_from_last_years_minis = << >>
        /\ emails_from_u_session = << >>
        /\ emails = {}
        /\ opened = << >>
        /\ echoed = FALSE
        /\ error = ""

\* Lines 66-67 of the command
ParseDates ==
    /\ pc = "parse_dates"
    /\ start_date' = ParseDate(start_date)
    /\ end_date' = ParseDate(end_date)
    /\ pc' = "ics"
    /\ UNCHANGED <<args, output_file, df, emails_from_calendar,
                   emails_from_last_years_minis, emails_from_u_session, emails,
                   opened, echoed, error>>

\* Line 69: ics_to_dataframe, or the exception that ends the command
IcsToDataframe ==
    /\ pc = "ics"
    /\ LET r == IcsToDataframeResult(ics_file, start_date, end_date, local_tz)
       IN /\ df' = r.df
          /\ error' = r.error
          /\ pc' = IF r.error = "" THEN "extract" ELSE "failed"
    /\ opened' = Append(opened, "ics_file")
    /\ UNCHANGED <<args, start_date, end_date, output_file, emails_from_calendar,
                   emails_from_last_years_minis, emails_from_u_session, emails,
                   echoed>>

\* Line 70: extract_email_addresses
ExtractEmailAddresses ==
    /\ pc = "extract"
    /\ df' = WithEmails(df)
    /\ pc' = "clean"
    /\ UNCHANGED <<args, start_date, end_date, output_file, emails_from_calendar,
                   emails_from_last_years_minis, emails_from_u_session, emails,
                   opened, echoed, error>>

\* Line 71: clean_and_explode_emails
CleanAndExplodeEmails ==
    /\ pc = "clean"
    /\ df' = CleanAndExplode(df)
    /\ pc' = "unique"
    /\ UNCHANGED <<args, start_date, end_date, output_file, emails_from_calendar,
                   emails_from_last_years_minis, emails_from_u_session, emails,
                   opened, echoed, error>>

\* Line 72
UniqueEmails ==
    /\ pc = "unique"
    /\ emails_from_calendar' = Unique(EmailsColumn(df))
    /\ pc' = "text"
    /\ UNCHANGED <<args, start_date, end_date, output_file, df,
                   emails_from_last_years_minis, emails_from_u_session, emails,
                   opened, echoed, error>>

\* Lines 74-76: extract_emails_from_text when the option is given
NameEmailFiles ==
    /\ pc = "text"
    /\ LET r == ExtractEmailsFromText(name_email_file)
       IN /\ emails_from_last_years_minis' = r.emails
          /\ error' = r.error
          /\ pc' = IF r.error = "" THEN "newline" ELSE "failed"
    /\ opened' = opened \o TextOpens(name_email_file)
    /\ UNCHANGED <<args, start_date, end_date, output_file, df,
                   emails_from_calendar, emails_from_u_session, emails, echoed>>

\* Lines 78-82: extract_emails_from_newline_separated_text when the option is
\* given
NewlineEmailFile ==
    /\ pc = "newline"
    /\ IF ~newline_email_file.given
       THEN /\ pc' = "merge"
            /\ UNCHANGED <<emails_from_u_session, opened, error>>
       ELSE /\ opened' = Append(opened, "newline_email_file")
            /\ IF newline_email_file.readable
               THEN /\ emails_from_u_session' =
                         ExtractEmailsFromNewlineSeparatedText(newline_email_file.content)
                    /\ pc' = "merge"
                    /\ UNCHANGED error
               ELSE /\ error' = "FileNotFoundError"
                    /\ pc' = "failed"
                    /\ UNCHANGED emails_from_u_session
    /\ UNCHANGED <<args, start_date, end_date, output_file, df,
                   emails_from_calendar, emails_from_last_years_minis, emails,
                   echoed>>

\* Lines 84-86
Merge ==
    /\ pc = "merge"
    /\ emails' = MergeEmails(emails_from_u_session, emails_from_calendar,
                             emails_from_last_years_minis)
    /\ pc' = "write"
    /\ UNCHANGED <<args, start_date, end_date, output_file, df,
                   emails_from_calendar, emails_from_last_years_minis,
                   emails_from_u_session, opened, echoed, error>>

\* Lines 88-89: the set is written in its iteration order, which is any order
WriteOutput ==
    /\ pc = "write"
    /\ opened' = Append(opened, "output_file")
    /\ IF output_file.writable
       THEN /\ \E order \in Orders(emails) :
                  output_file' = [output_file EXCEPT !.opened = TRUE,
                                      !.content = Join(order, Newline)]
            /\ pc' = "echo"
            /\ UNCHANGED error
       ELSE /\ error' = "PermissionError"
            /\ pc' = "failed"
            /\ UNCHANGED output_file
    /\ UNCHANGED <<args, start_date, end_date, df, emails_from_calendar,
                   emails_from_last_years_minis, emails_from_u_session, emails,
                   echoed>>

\* Line 91
Echo ==
    /\ pc = "echo"
    /\ echoed' = TRUE
    /\ pc' = "done"
    /\ UNCHANGED <<args, start_date, end_date, output_file, df,
                   emails_from_calendar, emails_from_last_years_minis,
                   emails_from_u_session, emails, opened, error>>

Next ==
    \/ ParseDates
    \/ IcsToDataframe
    \/ ExtractEmailAddresses
    \/ CleanAndExplodeEmails
    \/ UniqueEmails
    \/ NameEmailFiles
    \/ NewlineEmailFile
    \/ Merge
    \/ WriteOutput
    \/ Echo

Spec == Init /\ [][Next]_vars

\* ------------------------------------------------------------ properties
\* The frame ics_to_dataframe returned is in df exactly when pc = "extract"
Loaded == pc = "extract"

BothBounds == start_date # << >> /\ end_date # << >>

\* The row labels of the frame
Labels(rows) == {rows[k].index : k \in 1..Len(rows)}

\* Event i of the calendar has a row in the frame
Kept(i) == (i - 1) \in Labels(df)

Aug1 == Midnight(Date(2023, 8, 1))
Jan1 == Midnight(Date(2024, 1, 1))

\* s has, from its first character to its last, the shape of the pattern
\* with tld as the class of the characters after the last dot
HasShape(s, tld) ==
    \E a \in 2..Len(s) : \E q \in (a + 2)..(Len(s) - 2) :
        /\ s[a] = "@"
        /\ s[q] = "."
        /\ \A i \in 1..(a - 1) : s[i] \in LocalClass
        /\ \A i \in (a + 1)..(q - 1) : s[i] \in DomainClass
        /\ \A i \in (q + 1)..Len(s) : s[i] \in tld
        /\ IsWord(s[1])
        /\ IsWord(s[Len(s)])

\* C1: with both bounds given an event is kept if and only if
\* start_date <= Start < end_date, Start being the record's normalised start;
\* under [2023-08-01, 2024-01-01) an event dated 2023-07-31 is dropped, one
\* dated 2023-08-01 kept, one dated 2023-12-31 kept, one dated 2024-01-01
\* dropped.
C1_KeptIffInHalfOpenRange ==
    (Loaded /\ BothBounds) =>
        \A i \in 1..Len(ics_file.events) :
            LET ev == ics_file.events[i]
                start == EventRecord(ev, i - 1, local_tz).Start[1]
            IN /\ Kept(i) <=> (start_date[1] <= start /\ start < end_date[1])
               /\ (start_date[1] = Aug1 /\ end_date[1] = Jan1) =>
                    /\ ev.dtstart = DtDate(Date(2023, 7, 31)) => ~Kept(i)
                    /\ ev.dtstart = DtDate(Date(2023, 8, 1)) => Kept(i)
                    /\ ev.dtstart = DtDate(Date(2023, 12, 31)) => Kept(i)
                    /\ ev.dtstart = DtDate(Date(2024, 1, 1)) => ~Kept(i)

C1_Witness ==
    /\ Loaded
    /\ start_date = <<Aug1>>
    /\ end_date = <<Jan1>>
    /\ Len(ics_file.events) = 2
    /\ ics_file.events[1].dtstart = DtDate(Date(2023, 12, 31))
    /\ ics_file.events[2].dtstart = DtDate(Date(2024, 1, 1))
    /\ Labels(df) = {0}

\* An event whose DTSTART carries a UTC offset other than zero
Offset(ev) == ev.dtstart.kind = "aware" /\ ev.dtstart.utcoffset # 0

\* C2 as stated: for an event whose start carries a non-zero UTC offset the
\* filter decides by the calendar-local start date: the event is kept if and
\* only if its local date lies in [start, end).
C2_DecidedByLocalDate ==
    (Loaded /\ BothBounds) =>
        \A i \in 1..Len(ics_file.events) :
            LET v == ics_file.events[i].dtstart
            IN Offset(ics_file.events[i]) =>
                (Kept(i) <=> (start_date[1] <= Midnight(v.date)
                              /\ Midnight(v.date) < end_date[1]))

\* C2 amended: for an event whose start carries a non-zero UTC offset the
\* filter decides by the start converted to UTC: the event is kept if and only
\* if start_date <= local time - offset < end_date.
C2_DecidedByUtcInstant ==
    (Loaded /\ BothBounds) =>
        \A i \in 1..Len(ics_file.events) :
            LET v == ics_file.events[i].dtstart
                utc == Midnight(v.date) + v.minute - v.utcoffset
            IN Offset(ics_file.events[i]) =>
                (Kept(i) <=> (start_date[1] <= utc /\ utc < end_date[1]))

\* 2023-07-31 23:00 -05:00 is kept under [2023-08-01, 2024-01-01) and
\* 2023-12-31 22:00 -05:00 is dropped
C2_Witness ==
    /\ Loaded
    /\ start_date = <<Aug1>>
    /\ end_date = <<Jan1>>
    /\ Len(ics_file.events) = 2
    /\ ics_file.events[1].dtstart = DtAware(Date(2023, 7, 31), 23, -5)
    /\ ics_file.events[2].dtstart = DtAware(Date(2023, 12, 31), 22, -5)
    /\ Labels(df) = {0}

\* The stripped lines of the newline-delimited file
StrippedLines ==
    LET lines == FileLines(newline_email_file.content)
    IN [i \in 1..Len(lines) |-> Strip(lines[i])]

IsWholeEmail(s) == HasShape(s, TldClass)

\* C3 as stated: the newline extractor returns, in line order, exactly the
\* stripped lines that are in their entirety a match of the pattern.
C3_OnlyWholeLineEmails ==
    (pc = "merge" /\ newline_email_file.given) =>
        emails_from_u_session = SelectSeq(StrippedLines, IsWholeEmail)

\* C4 as stated: every Email record after extract_email_addresses and
\* clean_and_explode_emails is local part, "@", domain, ".", two or more
\* letters, and holds no other character.
C4_EveryEmailHasShape ==
    pc = "unique" =>
        \A k \in 1..Len(df) : HasShape(df[k].Emails, Letters)

\* The lines of the written file
WrittenLines ==
    IF output_file.content = << >> THEN << >>
    ELSE Split(output_file.content, "\n")

\* C5: the written collection is the set union of the three address lists:
\* every address of any list is written exactly once and nothing else is, and
\* addresses that differ only in case are both written.
C5_WrittenIsSetUnion ==
    output_file.opened =>
        /\ Range(WrittenLines) = Range(emails_from_calendar)
                                   \cup Range(emails_from_last_years_minis)
                                   \cup Range(emails_from_u_session)
        /\ \A i, j \in 1..Len(WrittenLines) :
                WrittenLines[i] = WrittenLines[j] => i = j
        /\ (/\ emails_from_calendar = <<StrA>>
            /\ emails_from_last_years_minis = <<StrA, StrC>>
            /\ emails_from_u_session = <<StrE>>) => Len(WrittenLines) = 3

C5_Witness ==
    /\ pc = "done"
    /\ emails_from_calendar = <<StrA>>
    /\ emails_from_last_years_minis = <<StrA, StrC, StrAUpper>>
    /\ emails_from_u_session = <<StrE, StrA>>
    /\ WrittenLines = <<StrAUpper, StrE, StrC, StrA>>

Count(xs, v) == Cardinality({i \in 1..Len(xs) : xs[i] = v})

Rank(src) ==
    CASE src = "ics_file" -> 1
      [] src = "name_email_file" -> 2
      [] src = "newline_email_file" -> 3
      [] src = "output_file" -> 4

\* The first name/email file that cannot be opened, 0 when all can
FirstUnreadable ==
    LET bad == {i \in 1..Len(name_email_file) : ~name_email_file[i].readable}
    IN IF bad = {} THEN 0 ELSE CHOOSE i \in bad : \A j \in bad : i <= j

Untouched == ~output_file.opened /\ output_file.content = StrOld /\ ~echoed

\* C6: the sources are opened in the order calendar, name/email files,
\* newline file; once a source fails no later source is opened, the output
\* file is neither opened nor written and nothing is echoed; the output file is
\* opened only after every given source was read.
C6_FailFastInOrder ==
    /\ \A i, j \in 1..Len(opened) : i < j => Rank(opened[i]) <= Rank(opened[j])
    /\ (pc = "failed" /\ opened[Len(opened)] # "output_file") =>
            Untouched /\ Count(opened, "output_file") = 0
    /\ (opened # << >> /\ IcsToDataframeResult(ics_file, start_date, end_date,
                                               local_tz).error # "") =>
            opened = <<"ics_file">> /\ Untouched /\ pc = "failed"
    /\ (FirstUnreadable # 0 /\ Count(opened, "name_email_file") > 0) =>
            /\ Count(opened, "name_email_file") = FirstUnreadable
            /\ Count(opened, "newline_email_file") = 0
            /\ Count(opened, "output_file") = 0
            /\ Untouched
            /\ pc = "failed"
    /\ (newline_email_file.given /\ ~newline_email_file.readable
        /\ Count(opened, "newline_email_file") > 0) =>
            /\ Count(opened, "output_file") = 0
            /\ Untouched
            /\ pc = "failed"
    /\ Count(opened, "output_file") > 0 =>
            /\ opened = <<"ics_file">>
                        \o [i \in 1..Len(name_email_file) |-> "name_email_file"]
                        \o (IF newline_email_file.given
                            THEN <<"newline_email_file">> ELSE << >>)
                        \o <<"output_file">>
            /\ ics_file.kind = "calendar"
            /\ FirstUnreadable = 0
            /\ newline_email_file.given => newline_email_file.readable
    /\ echoed => output_file.opened

\* The second of two name/email files fails and the newline file, though
\* given, is never opened
C6_Witness ==
    /\ pc = "failed"
    /\ Len(name_email_file) = 2
    /\ FirstUnreadable = 2
    /\ newline_email_file.given
    /\ opened = <<"ics_file", "name_email_file", "name_email_file">>
    /\ Untouched

\* The frame ics_to_dataframe returned, recomputed from the command's inputs
LoadedFrame == IcsToDataframeResult(ics_file, start_date, end_date, local_tz).df

\* C7: after clean_and_explode_emails the addresses are, in event order, the
\* regex matches of each event's Attendees: one stripped record per match,
\* under its event's label, none empty, and nothing for an event without a
\* match.
C7_ExplodeRecoversMatches ==
    pc = "unique" =>
        /\ EmailsColumn(df) =
              Concat([i \in 1..Len(LoadedFrame) |-> FindAll(LoadedFrame[i].Attendees)])
        /\ [k \in 1..Len(df) |-> df[k].index] =
              Concat([i \in 1..Len(LoadedFrame) |->
                        [m \in 1..Len(FindAll(LoadedFrame[i].Attendees)) |->
                            LoadedFrame[i].index]])
        /\ \A k \in 1..Len(df) : df[k].Emails # << >>

\* A first event without a match is dropped and a second with two CNs that
\* hold three addresses gives three records
C7_Witness ==
    /\ pc = "unique"
    /\ Len(LoadedFrame) = 2
    /\ LoadedFrame[1].Attendees = << >>
    /\ LoadedFrame[2].Attendees = StrNamed \o CommaSpace \o StrTwo
    /\ EmailsColumn(df) = <<StrC, StrA, StrC>>

\* The display string of an attendee: its common name
DisplayString(a) == a.CN

\* C8 as stated: the Attendees field of an event with n attendees is the
\* ", "-join of the n display strings, a single attendee being one entry.
C8_AttendeesJoinedWhole ==
    Loaded =>
        \A k \in 1..Len(df) :
            LET as == ics_file.events[df[k].index + 1].attendee
            IN df[k].Attendees =
                  Join([i \in 1..Len(as) |-> DisplayString(as[i])], CommaSpace)

\* Every component has a DTSTART and every attendee a CN
Complete(events) == \A i \in 1..Len(events) : EventError(events[i]) = ""

\* C9 as stated: a well-formed calendar without bounds is loaded without
\* error into one record per VEVENT, in order, also when it has no VEVENT.
C9_OneRecordPerEvent ==
    (/\ opened # << >>
     /\ ics_file.kind = "calendar"
     /\ Complete(ics_file.events)
     /\ start_date = << >>
     /\ end_date = << >>) =>
        /\ ~(pc = "failed" /\ opened = <<"ics_file">>)
        /\ Loaded =>
              /\ Len(df) = Len(ics_file.events)
              /\ \A i \in 1..Len(df) :
                    /\ df[i].index = i - 1
                    /\ df[i].Summary = ics_file.events[i].summary

OneBound == (start_date = << >>) # (end_date = << >>)

\* C10: with exactly one of the two bounds given no event is filtered out:
\* the frame is the frame without bounds.
C10_OneBoundIgnored ==
    (Loaded /\ OneBound) =>
        /\ df = AllRecords(ics_file.events, local_tz)
        /\ \A i \in 1..Len(ics_file.events) : Kept(i)

\* Only the start bound is given and an event dated before it is kept
C10_Witness ==
    /\ Loaded
    /\ start_date = <<Aug1>>
    /\ end_date = << >>
    /\ Len(ics_file.events) = 1
    /\ ics_file.events[1].dtstart = DtDate(Date(2023, 7, 31))
    /\ Labels(df) = {0}

====
